---- MODULE Spec2Model ----
(***************************************************************************)
(* The step-control engine of the BDF integrator in                        *)
(* src/jax_reactor/solver/bdf.py (BDF._solve): the three nested            *)
(* lax.while_loop's (advance_to_solution_time, step, maybe_step) as a      *)
(* state machine.                                                          *)
(*                                                                         *)
(* Numbers.  Times and step sizes are exact rationals, kept as integer     *)
(* multiples of a tick; one time unit is Unit ticks.  Every step-size      *)
(* factor of the configuration is a rational whose denominator divides     *)
(* min_step_size_factor.den, and an attempt multiplies the step size by    *)
(* at most one factor, so every product below is exact for the             *)
(* MaxNumSteps + 1 attempts a run can make.  float64 rounding is not       *)
(* modelled.                                                               *)
(*                                                                         *)
(* External collaborators.  The right-hand side, its Jacobian and the      *)
(* Newton corrector of bdf_util are not part of bdf.py; what they return   *)
(* (converged or not, iterations used, error ratios) is an input of each   *)
(* attempt, drawn from small sets.  An error ratio is 2^exp, or NaN.       *)
(***************************************************************************)
EXTENDS Integers, Sequences, FiniteSets, TLC

\* ------------------------------------------------------------ bounds
MaxNumSteps == 6
MaxOrder == 3

\* ----------------------------------------------------- configuration
\* BDF.__init__ arguments of the runs under verification.  The factors are
\* rationals with 0 < min_step_size_factor < 1 < max_step_size_factor and
\* safety_factor < 1, chosen dyadic (not the defaults 0.9, 0.1, 10.) so that
\* every product is exact on the tick grid.
safety_factor == [num |-> 1, den |-> 2]
min_step_size_factor == [num |-> 1, den |-> 4]
max_step_size_factor == [num |-> 2, den |-> 1]
newton_step_size_factor == [num |-> 1, den |-> 2]
max_num_newton_iters == 4
max_num_steps == MaxNumSteps
initial_time == 0

\* Ticks per time unit: enough for MaxNumSteps + 1 exact multiplications.
Unit == min_step_size_factor.den ^ (MaxNumSteps + 1)

\* The problems solved: solution_times (sorted ascending, not before
\* initial_time) and the first step size bdf_util.first_step_size(...)
\* computes for the problem (positive).  The first asks for no output; the
\* second starts at an output time and integrates far; the third has a first
\* step beyond its first output time and a repeated output time.
Problems ==
    { [solution_times |-> <<>>, first_step_size |-> Unit],
      [solution_times |-> <<0, 8 * Unit>>, first_step_size |-> Unit],
      [solution_times |-> <<Unit, Unit, 3 * Unit>>, first_step_size |-> 8 * Unit] }

\* self.max_order of the runs: no order adaptation at all, and the most.
MaxOrders == {1, MaxOrder}

\* ------------------------------------------------- abstract numerics
\* A state vector is known by the time it is the solution estimate of;
\* np.zeros rows are Zeros.
Zeros == <<"zeros", 0>>
StateAt(t) == <<"y", t>>
\* jacobian_fn(time, state): the Jacobian evaluated there.
jacobian_fn(t, y) == <<"jacobian", t, y>>

\* Error ratios: 2^exp, or NaN (np.nan).
NaN == [nan |-> TRUE, exp |-> 0]
Ratio(e) == [nan |-> FALSE, exp |-> e]
\* a < b on error ratios; any comparison with NaN is False.
RatioLess(a, b) == ~a.nan /\ ~b.nan /\ a.exp < b.exp
\* error_ratio < 1.
RatioLessOne(a) == RatioLess(a, Ratio(0))

\* Rationals [num, den], den > 0.
RatLess(a, b) == a.num * b.den < b.num * a.den
RatClamp(x, lo, hi) == IF RatLess(x, lo) THEN lo ELSE IF RatLess(hi, x) THEN hi ELSE x
\* x * 2^r
RatShift(x, r) ==
    IF r >= 0 THEN [num |-> x.num * 2 ^ r, den |-> x.den]
    ELSE [num |-> x.num, den |-> x.den * 2 ^ (0 - r)]
\* h * f, exact on the tick grid.
Scale(h, f) == (h * f.num) \div f.den

\* ------------------------------------------------ bdf_util (inputs)
\* bdf_util.newton(...) and the bdf_util.error_ratio(next_backward_difference,
\* error_coefficients[order], tol) that follows it, for an attempt at `order`:
\* whether Newton converged, the iterations it used (1 .. max_num_newton_iters)
\* and the error ratio 2^(k * (order + 1)) of the state it ended with (which
\* may be small for an iterate that did not converge).
NewtonOutcomes(order) ==
    { [newton_converged |-> FALSE, newton_num_iters |-> max_num_newton_iters,
       error_ratio |-> Ratio((0 - 3) * (order + 1))] }
    \cup
    { [newton_converged |-> TRUE, newton_num_iters |-> o[1],
       error_ratio |-> Ratio(o[2] * (order + 1))] :
          o \in { <<1, -3>>, <<2, -1>>, <<3, 0>>, <<max_num_newton_iters, 2>> } }
\* bdf_util.error_ratio(backward_differences[proposed_order + 1], ...): the
\* error ratio 2^(k * (proposed_order + 1)) order adaptation finds for a
\* candidate order.  The exponents let a candidate tie with the error ratio
\* of the attempt (order 2 against an attempt at order 1, both 2^-6) and two
\* candidates tie with each other (orders 1 and 3, both 2^-12).
ProposedErrorRatios(proposed_order) ==
    { Ratio(k * (proposed_order + 1)) :
          k \in IF proposed_order = 2 THEN {-2, -1, 1} ELSE {-6, -3, 1} }

\* bdf_util.next_step_size: step_size * clamp(safety_factor *
\* error_ratio^(-1/(order+1)), min_step_size_factor, max_step_size_factor).
StepSizeFactor(order, error_ratio, safety, min_factor, max_factor) ==
    RatClamp(RatShift(safety, (0 - error_ratio.exp) \div (order + 1)),
             min_factor, max_factor)
next_step_size(step_size, order, error_ratio, safety, min_factor, max_factor) ==
    Scale(step_size, StepSizeFactor(order, error_ratio, safety, min_factor, max_factor))

\* bdf_util.interpolate_backward_differences(backward_differences, order,
\* new_step_size / step_size): row 0 is kept, the difference rows are
\* rescaled to the new step size.
interpolate_backward_differences(backward_differences, order, new_h) ==
    [backward_differences EXCEPT !.h = new_h]
\* bdf_util.update_backward_differences(backward_differences,
\* next_backward_difference, next_state_vec, order): row 0 becomes
\* next_state_vec.
update_backward_differences(backward_differences, next_state_vec) ==
    [backward_differences EXCEPT !.row0 = next_state_vec]
\* bdf_util.newton_qr(jacobian_mat, newton_coefficients[order], step_size).
newton_qr(jacobian_mat, order, step_size) == <<"qr", jacobian_mat, order, step_size>>

\* ------------------------------------------------------------- state
VARIABLES
    solution_times,            \* argument of _solve
    evaluate_jacobian_lazily,  \* self._evaluate_jacobian_lazily
    max_order,                 \* self.max_order
    pc,                        \* the loop _solve is in
    n,                         \* output index of the outer loop
    accepted,                  \* loop variable of the maybe_step loop
    diagnostics,               \* _BDFDiagnostics
    iterand,                   \* _BDFIterand
    solver_internal_state,     \* _BDFSolverInternalState
    state_vec,                 \* Results.states
    times,                     \* Results.times
    attempt,                   \* locals of the last maybe_step call
    at_accept                  \* history: diagnostics at the last accepted attempt

vars == <<solution_times, evaluate_jacobian_lazily, max_order, pc, n, accepted, diagnostics,
          iterand, solver_internal_state, state_vec, times, attempt, at_accept>>

num_solution_times == Len(solution_times)

\* _initialize_solver_internal_state: order 1, the first step size, row 0
\* the initial state.
InitialSolverInternalState(first_step_size) ==
    [backward_differences |-> [row0 |-> StateAt(initial_time), h |-> first_step_size],
     order |-> 1,
     step_size |-> first_step_size]

InitialDiagnostics ==
    [num_jacobian_evaluations |-> 0,
     num_matrix_factorizations |-> 0,
     num_ode_fn_evaluations |-> 0,
     status |-> 0]

InitialIterand(first_step_size) ==
    [jacobian_mat |-> Zeros,
     jacobian_is_up_to_date |-> FALSE,
     new_step_size |-> first_step_size,
     num_steps |-> 0,
     num_steps_same_size |-> 0,
     should_update_jacobian |-> TRUE,
     should_update_step_size |-> FALSE,
     time |-> initial_time,
     qr |-> Zeros]

\* No maybe_step call made yet.
InitialAttempt ==
    [newton_converged |-> FALSE, error_ratio |-> NaN, newton_num_iters |-> 0,
     order |-> 1, proposed_error_ratios |-> <<NaN, NaN>>, new_error_ratio |-> NaN]

Init ==
    /\ evaluate_jacobian_lazily \in BOOLEAN
    /\ max_order \in MaxOrders
    /\ \E problem \in Problems :
          /\ solution_times = problem.solution_times
          /\ solver_internal_state = InitialSolverInternalState(problem.first_step_size)
          /\ iterand = InitialIterand(problem.first_step_size)
    /\ diagnostics = InitialDiagnostics
    /\ state_vec = [i \in 1..Len(solution_times) |-> Zeros]
    /\ times = [i \in 1..Len(solution_times) |-> 0]
    /\ n = 0
    /\ accepted = FALSE
    /\ pc = "outer"
    /\ attempt = InitialAttempt
    /\ at_accept = InitialDiagnostics

\* ------------------------------------------------- loop conditions
\* The outer loop going on after a fatal status.
advance_to_solution_time_cond_IgnoreStatus(n_, diagnostics_) ==
    n_ < num_solution_times

advance_to_solution_time_cond(n_, diagnostics_) ==
    n_ < num_solution_times /\ diagnostics_.status = 0

\* The step loop entered with the target already reached.
step_cond_AtTarget(next_time, diagnostics_, iterand_) ==
    iterand_.time <= next_time /\ diagnostics_.status = 0

step_cond(next_time, diagnostics_, iterand_) ==
    iterand_.time < next_time /\ diagnostics_.status = 0

\* The retry loop going on after an accepted attempt.
maybe_step_cond_IgnoreAccepted(accepted_, diagnostics_) ==
    diagnostics_.status = 0

maybe_step_cond(accepted_, diagnostics_) ==
    ~accepted_ /\ diagnostics_.status = 0

\* solution_times[n], the target of the current advance (0-based n).
nth_solution_time == solution_times[n + 1]

\* ------------------------------------------------- step (prologue)
\* The clamp left out: the pending step size goes through as it is.
ClampedNewStepSize_NoClamp(new_step_size, distance_to_next_time) == new_step_size

\* new_step_size after the clamp to the target.
ClampedNewStepSize(new_step_size, distance_to_next_time) ==
    IF new_step_size > distance_to_next_time THEN distance_to_next_time
    ELSE new_step_size

\* The clamp made without marking the step-size update pending.
StepShouldUpdateStepSize_NotMarked(overstepped, should_update_step_size) ==
    should_update_step_size

\* should_update_step_size = overstepped | iterand.should_update_step_size.
StepShouldUpdateStepSize(overstepped, should_update_step_size) ==
    overstepped \/ should_update_step_size

\* The cached Jacobian kept whenever it is marked up to date, lazy or not.
KeepJacobian_IgnoreLazily(lazily, jacobian_is_up_to_date) == jacobian_is_up_to_date

\* The cached Jacobian kept whenever lazy evaluation is on.
KeepJacobian_WheneverLazy(lazily, jacobian_is_up_to_date) == lazily

\* The where-condition of the Jacobian selection.
KeepJacobian(lazily, jacobian_is_up_to_date) == lazily /\ jacobian_is_up_to_date

\* The flag set once step() has the Jacobian of the current time and state.
StepJacobianIsUpToDate_Set(jacobian_is_up_to_date) == TRUE

\* jacobian_is_up_to_date = iterand.jacobian_is_up_to_date, put back as read.
StepJacobianIsUpToDate(jacobian_is_up_to_date) == jacobian_is_up_to_date

\* ------------------------------------------------- maybe_step pieces
\* The budget test one attempt late.
Status_OneLate(num_steps) == IF num_steps = max_num_steps + 1 THEN -1 ELSE 0

Status(num_steps) == IF num_steps = max_num_steps THEN -1 ELSE 0

\* np.where left out: the error ratio of the iterate, converged or not.
ErrorRatio_Unmasked(newton_converged, raw_error_ratio) == raw_error_ratio

\* error_ratio = np.where(newton_converged, bdf_util.error_ratio(...), np.nan).
ErrorRatio(newton_converged, raw_error_ratio) ==
    IF newton_converged THEN raw_error_ratio ELSE NaN

\* The comparison widened: accepted = error_ratio <= 1.
Accepted_AtOne(error_ratio) == ~error_ratio.nan /\ error_ratio.exp <= 0

\* accepted = error_ratio < 1.
Accepted(error_ratio) == RatioLessOne(error_ratio)

\* The hysteresis left out: order and step size re-evaluated at every
\* accepted attempt.
ShouldUpdateOrderAndStepSize_NoHysteresis(accepted_, num_steps_same_size, order) ==
    accepted_

ShouldUpdateOrderAndStepSize(accepted_, num_steps_same_size, order) ==
    accepted_ /\ num_steps_same_size > order + 1

Clip(x, lo, hi) == IF x < lo THEN lo ELSE IF x > hi THEN hi ELSE x

\* np.clip left out.
ProposedOrder_NoClip(order, offset) == order + offset

ProposedOrder(order, offset) == Clip(order + offset, 1, max_order)

\* The comparison widened: proposed_error_ratio <= new_error_ratio.
OrderScanStep_NotStrict(choice, should_update, proposed_order, proposed_error_ratio) ==
    IF should_update /\ ~RatioLess(choice.error_ratio, proposed_error_ratio)
    THEN [order |-> proposed_order, error_ratio |-> proposed_error_ratio]
    ELSE choice

\* One pass of `for offset in [-1, +1]`: choice = (new_order, new_error_ratio).
OrderScanStep(choice, should_update, proposed_order, proposed_error_ratio) ==
    LET proposed_error_ratio_is_lower ==
            RatioLess(proposed_error_ratio, choice.error_ratio)
    IN  IF should_update /\ proposed_error_ratio_is_lower
        THEN [order |-> proposed_order, error_ratio |-> proposed_error_ratio]
        ELSE choice

\* The matrix refactored only when the step size changed.
NumMatrixFactorizations_WhenNeeded(num_matrix_factorizations, should_update_factorization) ==
    IF should_update_factorization THEN num_matrix_factorizations + 1
    ELSE num_matrix_factorizations

\* unitary, upper = update_factorization(); num_matrix_factorizations += 1:
\* should_update_factorization is computed and not used.
NumMatrixFactorizations(num_matrix_factorizations, should_update_factorization) ==
    num_matrix_factorizations + 1

\* The step shrunk after every Newton failure, the Jacobian up to date or not.
ShouldShrinkAfterNewton_Always(newton_failed, jacobian_is_up_to_date) ==
    newton_failed

\* should_update_step_size = newton_failed & jacobian_is_up_to_date.
ShouldShrinkAfterNewton(newton_failed, jacobian_is_up_to_date) ==
    newton_failed /\ jacobian_is_up_to_date

\* The product misplaced: new_step_size = where(..., step_size * factor, 1.).
NewtonShrunkStepSize_Misplaced(step_size, should_update_step_size) ==
    IF should_update_step_size THEN Scale(step_size, newton_step_size_factor)
    ELSE Unit

\* new_step_size = step_size * where(should_update_step_size,
\* newton_step_size_factor, 1.).
NewtonShrunkStepSize(step_size, should_update_step_size) ==
    IF should_update_step_size THEN Scale(step_size, newton_step_size_factor)
    ELSE step_size

\* ------------------------------------------------------------ actions
\* The outer while_loop enters advance_to_solution_time for the first time.
AdvanceToSolutionTime ==
    /\ pc = "outer"
    /\ advance_to_solution_time_cond(n, diagnostics)
    /\ pc' = "step_loop"
    /\ UNCHANGED <<solution_times, evaluate_jacobian_lazily, max_order, n, accepted, diagnostics,
                   iterand, solver_internal_state, state_vec, times, attempt, at_accept>>

\* The outer while_loop does not run at all (no solution times): _solve returns.
Return ==
    /\ pc = "outer"
    /\ ~advance_to_solution_time_cond(n, diagnostics)
    /\ pc' = "done"
    /\ UNCHANGED <<solution_times, evaluate_jacobian_lazily, max_order, n, accepted, diagnostics,
                   iterand, solver_internal_state, state_vec, times, attempt, at_accept>>

\* step, up to the start of its maybe_step loop.
Step ==
    /\ pc = "step_loop"
    /\ step_cond(nth_solution_time, diagnostics, iterand)
    /\ LET distance_to_next_time == nth_solution_time - iterand.time
           overstepped == iterand.new_step_size > distance_to_next_time
           keep == KeepJacobian(evaluate_jacobian_lazily, iterand.jacobian_is_up_to_date)
       IN  /\ iterand' =
                [iterand EXCEPT
                   !.new_step_size =
                       ClampedNewStepSize(iterand.new_step_size, distance_to_next_time),
                   !.should_update_step_size =
                       StepShouldUpdateStepSize(overstepped,
                                                iterand.should_update_step_size),
                   !.jacobian_mat =
                       IF keep THEN iterand.jacobian_mat
                       ELSE jacobian_fn(iterand.time,
                                        solver_internal_state.backward_differences.row0),
                   !.jacobian_is_up_to_date =
                       StepJacobianIsUpToDate(iterand.jacobian_is_up_to_date)]
           /\ diagnostics' =
                [diagnostics EXCEPT
                   !.num_jacobian_evaluations = IF keep THEN @ ELSE @ + 1]
    /\ accepted' = FALSE
    /\ pc' = "maybe_step_loop"
    /\ UNCHANGED <<solution_times, evaluate_jacobian_lazily, max_order, n, solver_internal_state,
                   state_vec, times, attempt, at_accept>>

\* One call of maybe_step: the whole attempt.
MaybeStep ==
    /\ pc = "maybe_step_loop"
    /\ maybe_step_cond(accepted, diagnostics)
    /\ \E outcome \in NewtonOutcomes(solver_internal_state.order) :
       LET newton_converged == outcome.newton_converged
           newton_num_iters == outcome.newton_num_iters
           order == solver_internal_state.order
           should_update_step_size_0 == iterand.should_update_step_size
           status == Status(iterand.num_steps)
           backward_differences_0 ==
               IF should_update_step_size_0
               THEN interpolate_backward_differences(
                        solver_internal_state.backward_differences, order,
                        iterand.new_step_size)
               ELSE solver_internal_state.backward_differences
           step_size ==
               IF should_update_step_size_0 THEN iterand.new_step_size
               ELSE solver_internal_state.step_size
           num_steps_same_size_0 ==
               IF should_update_step_size_0 THEN 0 ELSE iterand.num_steps_same_size
           qr == newton_qr(iterand.jacobian_mat, order, step_size)
           newton_failed == ~newton_converged
           should_update_step_size_1 ==
               ShouldShrinkAfterNewton(newton_failed, iterand.jacobian_is_up_to_date)
           new_step_size_1 == NewtonShrunkStepSize(step_size, should_update_step_size_1)
           should_update_jacobian == newton_failed /\ ~iterand.jacobian_is_up_to_date
           error_ratio == ErrorRatio(newton_converged, outcome.error_ratio)
           accepted_ == Accepted(error_ratio)
           converged_and_rejected == newton_converged /\ ~accepted_
           new_step_size_2 ==
               IF converged_and_rejected
               THEN next_step_size(step_size, order, error_ratio, safety_factor,
                                   min_step_size_factor, max_step_size_factor)
               ELSE new_step_size_1
           should_update_step_size_2 == should_update_step_size_1 \/ converged_and_rejected
           time == IF accepted_ THEN iterand.time + step_size ELSE iterand.time
           backward_differences ==
               IF accepted_
               THEN update_backward_differences(backward_differences_0,
                                                StateAt(iterand.time + step_size))
               ELSE backward_differences_0
           jacobian_is_up_to_date == iterand.jacobian_is_up_to_date /\ ~accepted_
           num_steps_same_size ==
               IF accepted_ THEN num_steps_same_size_0 + 1 ELSE num_steps_same_size_0
           should_update_order_and_step_size ==
               ShouldUpdateOrderAndStepSize(accepted_, num_steps_same_size, order)
       IN  \E ratio_minus \in
                  IF should_update_order_and_step_size
                  THEN ProposedErrorRatios(ProposedOrder(order, -1)) ELSE {NaN},
              ratio_plus \in
                  IF should_update_order_and_step_size
                  THEN ProposedErrorRatios(ProposedOrder(order, 1)) ELSE {NaN} :
           LET choice_0 == [order |-> order, error_ratio |-> error_ratio]
               choice_1 == OrderScanStep(choice_0, should_update_order_and_step_size,
                                         ProposedOrder(order, -1), ratio_minus)
               choice_2 == OrderScanStep(choice_1, should_update_order_and_step_size,
                                         ProposedOrder(order, 1), ratio_plus)
               new_step_size ==
                   IF should_update_order_and_step_size
                   THEN next_step_size(step_size, choice_2.order, choice_2.error_ratio,
                                       safety_factor, min_step_size_factor,
                                       max_step_size_factor)
                   ELSE new_step_size_2
               should_update_step_size ==
                   should_update_step_size_2 \/ should_update_order_and_step_size
               diagnostics_ ==
                   [num_jacobian_evaluations |-> diagnostics.num_jacobian_evaluations,
                    num_matrix_factorizations |->
                        NumMatrixFactorizations(diagnostics.num_matrix_factorizations,
                                                should_update_step_size_0),
                    num_ode_fn_evaluations |->
                        diagnostics.num_ode_fn_evaluations + newton_num_iters,
                    status |-> status]
           IN  /\ accepted' = accepted_
               /\ diagnostics' = diagnostics_
               /\ iterand' =
                    [jacobian_mat |-> iterand.jacobian_mat,
                     jacobian_is_up_to_date |-> jacobian_is_up_to_date,
                     new_step_size |-> new_step_size,
                     num_steps |-> iterand.num_steps + 1,
                     num_steps_same_size |-> num_steps_same_size,
                     should_update_jacobian |-> should_update_jacobian,
                     should_update_step_size |-> should_update_step_size,
                     time |-> time,
                     qr |-> qr]
               /\ solver_internal_state' =
                    [backward_differences |-> backward_differences,
                     order |-> choice_2.order,
                     step_size |-> step_size]
               /\ attempt' = [newton_converged |-> newton_converged,
                              error_ratio |-> error_ratio,
                              newton_num_iters |-> newton_num_iters,
                              order |-> order,
                              proposed_error_ratios |-> <<ratio_minus, ratio_plus>>,
                              new_error_ratio |-> choice_2.error_ratio]
               /\ at_accept' = IF accepted_ THEN diagnostics_ ELSE at_accept
               \* maybe_step_cond decides whether the loop calls maybe_step
               \* again or step returns to the step loop.
               /\ pc' = IF maybe_step_cond(accepted_, diagnostics_)
                        THEN "maybe_step_loop" ELSE "step_loop"
    /\ UNCHANGED <<solution_times, evaluate_jacobian_lazily, max_order, n, state_vec, times>>

\* The step loop ends: advance_to_solution_time records slot n and returns n + 1.
RecordSolution ==
    /\ pc = "step_loop"
    /\ ~step_cond(nth_solution_time, diagnostics, iterand)
    /\ state_vec' = [state_vec EXCEPT
                        ![n + 1] = solver_internal_state.backward_differences.row0]
    /\ times' = [times EXCEPT ![n + 1] = nth_solution_time]
    /\ n' = n + 1
    \* advance_to_solution_time_cond decides whether the outer loop goes on
    \* to the next output time or _solve returns.
    /\ pc' = IF advance_to_solution_time_cond(n + 1, diagnostics)
             THEN "step_loop" ELSE "done"
    /\ UNCHANGED <<solution_times, evaluate_jacobian_lazily, max_order, accepted, diagnostics,
                   iterand, solver_internal_state, attempt, at_accept>>

Next ==
    \/ AdvanceToSolutionTime
    \/ Step
    \/ MaybeStep
    \/ RecordSolution
    \/ Return

Spec == Init /\ [][Next]_vars

\* _solve is one sequential computation: it keeps running until it returns.
FairSpec == Spec /\ WF_vars(Next)

\* maybe_step as a function of its arguments: the loops of _solve run from an
\* iterand whose jacobian_is_up_to_date is either value (_solve itself builds
\* it False, as in Init), everything else as _solve builds it.
InitAnyJacobianFlag ==
    /\ evaluate_jacobian_lazily \in BOOLEAN
    /\ max_order \in MaxOrders
    /\ \E problem \in Problems, jacobian_is_up_to_date \in BOOLEAN :
          /\ solution_times = problem.solution_times
          /\ solver_internal_state = InitialSolverInternalState(problem.first_step_size)
          /\ iterand = [InitialIterand(problem.first_step_size) EXCEPT
                           !.jacobian_is_up_to_date = jacobian_is_up_to_date]
    /\ diagnostics = InitialDiagnostics
    /\ state_vec = [i \in 1..Len(solution_times) |-> Zeros]
    /\ times = [i \in 1..Len(solution_times) |-> 0]
    /\ n = 0
    /\ accepted = FALSE
    /\ pc = "outer"
    /\ attempt = InitialAttempt
    /\ at_accept = InitialDiagnostics

AnyJacobianFlagSpec == InitAnyJacobianFlag /\ [][Next]_vars

\* A caller that got Results with status 0 calls solve again to go on from
\* the last output time: solve(ode_fn, initial_time = times[-1],
\* initial_state = states[-1], solution_times, jacobian_fn).  solve has no
\* parameter for the solver_internal_state it returned, and _solve builds
\* every loop variable anew, as Init does, around the new initial time and
\* state.  ResumeFirstStepSize is what bdf_util.first_step_size computes there.
ResumeFirstStepSize == Unit
ResumeSolutionTimes(t1) == <<t1, t1 + 2 * Unit>>

SolveAgain ==
    /\ pc = "done"
    /\ diagnostics.status = 0
    /\ \E problem \in Problems : solution_times = problem.solution_times
    /\ num_solution_times > 0
    /\ LET t1 == times[num_solution_times]
           initial_state == state_vec[num_solution_times]
       IN  /\ solution_times' = ResumeSolutionTimes(t1)
           /\ solver_internal_state' =
                [InitialSolverInternalState(ResumeFirstStepSize) EXCEPT
                    !.backward_differences.row0 = initial_state]
           /\ iterand' = [InitialIterand(ResumeFirstStepSize) EXCEPT !.time = t1]
    /\ diagnostics' = InitialDiagnostics
    /\ state_vec' = [i \in 1..Len(solution_times') |-> Zeros]
    /\ times' = [i \in 1..Len(solution_times') |-> 0]
    /\ n' = 0
    /\ accepted' = FALSE
    /\ pc' = "step_loop"
    /\ attempt' = InitialAttempt
    /\ at_accept' = InitialDiagnostics
    /\ UNCHANGED <<evaluate_jacobian_lazily, max_order>>

\* A solve, and the solve a caller may make next to go on from its end.
NextWithResume ==
    \/ Next
    \/ SolveAgain

ResumeSpec == Init /\ [][NextWithResume]_vars

\* ------------------------------------------------------------ claims
\* Slot i (1-based) still holds what np.zeros put there.
SlotIsInitial(i) == times[i] = 0 /\ state_vec[i] = Zeros

\* An attempt (one maybe_step call) is the step taken.
IsAttempt == iterand'.num_steps # iterand.num_steps

\* C1. Exact landing: when _solve returns with status 0, every times[i] is
\* the requested solution_times[i] and states[i] is row 0 of the backward
\* differences as it stood with the solver's time equal to solution_times[i].
C1_ExactLanding ==
    (pc = "done" /\ diagnostics.status = 0) =>
        \A i \in 1..num_solution_times :
            /\ times[i] = solution_times[i]
            /\ state_vec[i] = StateAt(solution_times[i])

\* A run that took several attempts, at least one of them shortened by the
\* clamp, and returned with status 0 and its last slot filled.
C1_Witness ==
    /\ pc = "done"
    /\ diagnostics.status = 0
    /\ iterand.num_steps >= 3
    /\ solver_internal_state.step_size < Unit
    /\ num_solution_times = 3
    /\ times[3] = 3 * Unit

\* C2. No overshoot: the solver's time never passes the output time being
\* targeted, and the step size an attempt uses is at most the distance from
\* the time at the start of its step() call to the target, retries included.
C2_TimeWithinTarget ==
    n < num_solution_times => iterand.time <= nth_solution_time
C2_NoOvershoot ==
    /\ []C2_TimeWithinTarget
    /\ [][IsAttempt =>
            solver_internal_state'.step_size <= nth_solution_time - iterand.time]_vars

\* An attempt retried after a rejection has landed exactly on the target.
C2_Witness ==
    /\ pc = "step_loop"
    /\ accepted
    /\ iterand.time = nth_solution_time
    /\ iterand.num_steps >= 2
    /\ 4 * solver_internal_state.step_size < Unit

\* C3. Bounded termination: the solve returns, after at most
\* max_num_steps + 1 attempts, and when it has returned either status # 0 or
\* every output slot has been produced.
C3_ReturnedComplete ==
    pc = "done" => (diagnostics.status # 0 \/ n = num_solution_times)
C3_BoundedTermination ==
    /\ [][iterand'.num_steps <= max_num_steps + 1]_vars
    /\ []C3_ReturnedComplete
    /\ <>(pc = "done")

\* A run that used the whole budget and one attempt more, and returned.
C3_Witness ==
    /\ pc = "done"
    /\ iterand.num_steps = max_num_steps + 1

\* The output slot being advanced (1-based), or the last one advanced.
CurrentSlot == IF pc \in {"step_loop", "maybe_step_loop"} THEN n + 1 ELSE n

\* C4. Step-budget fatal path: once more than max_num_steps attempts have
\* been made status is -1; after status is -1 it stays -1, no attempt follows
\* and the one step left is the return; the slots after the one being
\* advanced keep their zeros.
C4_StatusSet == iterand.num_steps > max_num_steps => diagnostics.status = -1
C4_LaterSlotsInitial ==
    diagnostics.status = -1 =>
        \A i \in 1..num_solution_times : i > CurrentSlot => SlotIsInitial(i)
C4_StepBudgetFatal ==
    /\ []C4_StatusSet
    /\ []C4_LaterSlotsInitial
    /\ [][diagnostics.status = -1 =>
            diagnostics'.status = -1 /\ ~IsAttempt /\ pc' = "done"]_vars

\* The budget ran out while the first of three slots was being advanced.
C4_Witness ==
    /\ pc = "done"
    /\ diagnostics.status = -1
    /\ n = 1
    /\ num_solution_times = 3
    /\ SlotIsInitial(3)

\* C5. On step-budget exhaustion every filled slot is valid: a slot holds a
\* recorded state only if the solver's time was solution_times[i] when it was
\* recorded, and the slot whose target was not reached keeps its zeros.
C5_FilledSlotsValid ==
    diagnostics.status = -1 =>
        \A i \in 1..num_solution_times :
            \/ SlotIsInitial(i)
            \/ state_vec[i] = StateAt(solution_times[i])

\* C6. Order bound: 1 <= order <= max_order in every reachable state.
C6_OrderBound ==
    /\ 1 <= solver_internal_state.order
    /\ solver_internal_state.order <= max_order

\* Order adaptation raised the order twice, to the largest order allowed.
C6_Witness ==
    /\ max_order = MaxOrder
    /\ max_order > 2
    /\ solver_internal_state.order = max_order

\* C7. Monotonic diagnostics: no step lowers num_jacobian_evaluations,
\* num_matrix_factorizations or num_ode_fn_evaluations, and at every accepted
\* attempt each of the three is larger than it was at the accepted attempt
\* before (at the start, for the first).
CountersNotBelow(d, e) ==
    /\ d.num_jacobian_evaluations >= e.num_jacobian_evaluations
    /\ d.num_matrix_factorizations >= e.num_matrix_factorizations
    /\ d.num_ode_fn_evaluations >= e.num_ode_fn_evaluations
CountersAbove(d, e) ==
    /\ d.num_jacobian_evaluations > e.num_jacobian_evaluations
    /\ d.num_matrix_factorizations > e.num_matrix_factorizations
    /\ d.num_ode_fn_evaluations > e.num_ode_fn_evaluations
C7_MonotonicDiagnostics ==
    /\ [][CountersNotBelow(diagnostics', diagnostics)]_vars
    /\ [][(IsAttempt /\ accepted') => CountersAbove(diagnostics', at_accept)]_vars

\* A third accepted attempt, with rejected or failed attempts before it.
C7_Witness ==
    /\ accepted
    /\ at_accept = diagnostics
    /\ diagnostics.num_jacobian_evaluations >= 3
    /\ diagnostics.num_matrix_factorizations > diagnostics.num_jacobian_evaluations

\* lo * a <= b <= hi * a for rationals lo, hi.
WithinFactors(b, a, lo, hi) ==
    /\ lo.num * a <= b * lo.den
    /\ b * hi.den <= hi.num * a

\* C8 (as claimed). Whenever the step size in force changes, the new one is
\* within [min_step_size_factor, max_step_size_factor] times the one before,
\* whatever made the update, the clamp to the target included.
C8_EveryUpdateWithinFactors ==
    [][solver_internal_state'.step_size # solver_internal_state.step_size =>
          WithinFactors(solver_internal_state'.step_size,
                        solver_internal_state.step_size,
                        min_step_size_factor, max_step_size_factor)]_vars

\* C8 (amended). The step size an attempt leaves pending is within
\* [min_step_size_factor, max_step_size_factor] times the step size the
\* attempt used; and a step size put in force is within those factors of the
\* one before unless it is the clamped distance to the target.
C8_ProposedWithinFactors ==
    /\ [][IsAttempt =>
            WithinFactors(iterand'.new_step_size, solver_internal_state'.step_size,
                          min_step_size_factor, max_step_size_factor)]_vars
    /\ [][solver_internal_state'.step_size # solver_internal_state.step_size =>
            \/ WithinFactors(solver_internal_state'.step_size,
                             solver_internal_state.step_size,
                             min_step_size_factor, max_step_size_factor)
            \/ solver_internal_state'.step_size = nth_solution_time - iterand.time]_vars

\* A rejected attempt has left the smallest step size allowed pending.
C8_Witness ==
    /\ iterand.num_steps > 0
    /\ attempt.newton_converged
    /\ ~accepted
    /\ iterand.should_update_step_size
    /\ iterand.new_step_size * min_step_size_factor.den
           = solver_internal_state.step_size * min_step_size_factor.num

\* C9. Step size positivity: step_size and the pending new_step_size are
\* greater than 0 in every reachable state.
C9_StepSizePositive ==
    /\ solver_internal_state.step_size > 0
    /\ iterand.new_step_size > 0

\* The step size after the clamp and two rejections at the smallest factor.
C9_Witness ==
    /\ iterand.num_steps >= 3
    /\ 16 * 8 * solver_internal_state.step_size <= 8 * Unit
    /\ iterand.new_step_size < solver_internal_state.step_size

\* C10. Non-convergence is recoverable: the attempt that follows an attempt
\* whose Newton corrector failed runs with a smaller step size, or with a
\* Jacobian evaluated after the failed attempt.
C10_RetryDiffers ==
    [][(IsAttempt /\ iterand.num_steps > 0 /\ ~attempt.newton_converged) =>
          \/ solver_internal_state'.step_size < solver_internal_state.step_size
          \/ diagnostics'.num_jacobian_evaluations
                 > diagnostics.num_jacobian_evaluations]_vars

\* The attempt just made (primed) or the one before (unprimed) converged with
\* an error ratio >= 1.
ConvergedNotBelowOne(a) ==
    a.newton_converged /\ ~a.error_ratio.nan /\ a.error_ratio.exp >= 0

\* C11. Rejected step: an attempt whose Newton corrector converged with an
\* error ratio >= 1 is not accepted, leaves time and order as they were, marks
\* a step-size update pending and proposes step_size * clamp(safety_factor *
\* error_ratio^(-1/(order+1)), min_step_size_factor, max_step_size_factor),
\* which is smaller than step_size; the attempt that follows a rejected one
\* uses exactly that smaller step size.
C11_RejectedStep ==
    /\ [][(IsAttempt /\ ConvergedNotBelowOne(attempt')) =>
            LET factor == StepSizeFactor(solver_internal_state.order,
                                         attempt'.error_ratio, safety_factor,
                                         min_step_size_factor, max_step_size_factor)
            IN  /\ ~accepted'
                /\ iterand'.time = iterand.time
                /\ solver_internal_state'.order = solver_internal_state.order
                /\ iterand'.should_update_step_size
                /\ iterand'.new_step_size * factor.den
                       = solver_internal_state'.step_size * factor.num
                /\ iterand'.new_step_size < solver_internal_state'.step_size]_vars
    /\ [][(IsAttempt /\ ConvergedNotBelowOne(attempt)) =>
            /\ solver_internal_state'.step_size = iterand.new_step_size
            /\ solver_internal_state'.step_size < solver_internal_state.step_size]_vars

\* The retry of an attempt rejected with error ratio 2^4 at order 1 was
\* accepted with a quarter of the rejected step size.
C11_Witness ==
    /\ accepted
    /\ iterand.num_steps = 2
    /\ diagnostics.num_jacobian_evaluations = 1
    /\ solver_internal_state.step_size * 4 = Unit
    /\ iterand.time = solver_internal_state.step_size

\* C12. Warm start: the solve that goes on from the end of a solve starts from
\* the solver_internal_state that solve returned (its order, step size and
\* backward differences), not from a fresh order-1 initialization.
C12_ResumesFromReturnedState ==
    [][(pc = "done" /\ pc' # "done") =>
          solver_internal_state' = solver_internal_state]_vars

\* C13. Budget check returns without further work: the attempt entered with
\* num_steps = max_num_steps sets status = -1, is not accepted, and leaves
\* time, backward differences, order, step size, num_steps,
\* num_steps_same_size and the three counters as they were.
C13_BudgetAttemptChangesNothing ==
    [][(pc = "maybe_step_loop" /\ iterand.num_steps = max_num_steps) =>
          /\ diagnostics'.status = -1
          /\ ~accepted'
          /\ iterand'.time = iterand.time
          /\ solver_internal_state' = solver_internal_state
          /\ iterand'.num_steps = iterand.num_steps
          /\ iterand'.num_steps_same_size = iterand.num_steps_same_size
          /\ diagnostics'.num_jacobian_evaluations = diagnostics.num_jacobian_evaluations
          /\ diagnostics'.num_matrix_factorizations
                 = diagnostics.num_matrix_factorizations
          /\ diagnostics'.num_ode_fn_evaluations = diagnostics.num_ode_fn_evaluations]_vars

\* C14. Acceptance rule: an attempt is accepted exactly when Newton converged
\* and the error ratio is below 1 (a ratio of 1, and any attempt that did not
\* converge, is rejected); an accepted attempt advances time by the step size
\* it used, leaves num_steps_same_size one above its value after the pending
\* step-size update was applied (0 if one was), and leaves
\* jacobian_is_up_to_date false.
C14_AcceptanceRule ==
    /\ [][IsAttempt =>
            (accepted' <=> (/\ attempt'.newton_converged
                            /\ ~attempt'.error_ratio.nan
                            /\ attempt'.error_ratio.exp < 0))]_vars
    /\ [][(IsAttempt /\ accepted') =>
            /\ iterand'.time = iterand.time + solver_internal_state'.step_size
            /\ iterand'.num_steps_same_size =
                   (IF iterand.should_update_step_size THEN 0
                    ELSE iterand.num_steps_same_size) + 1
            /\ ~iterand'.jacobian_is_up_to_date]_vars

\* A third accepted attempt in a row at one step size.
C14_Witness ==
    /\ accepted
    /\ iterand.num_steps_same_size = 3
    /\ iterand.time = 3 * solver_internal_state.step_size
    /\ iterand.num_steps > 3

\* C15. Step Driver retry loop: a step() call makes at least one attempt and
\* goes on making attempts until one is accepted or status # 0; so no attempt
\* follows an accepted attempt inside the call (the accepted attempt, if
\* any, is the last), and an attempt that is not accepted leaves time and
\* order as they were.
C15_RetryLoop ==
    /\ [][(pc = "step_loop" /\ pc' = "maybe_step_loop") =>
            (~accepted' /\ diagnostics'.status = 0)]_vars
    /\ [](pc = "maybe_step_loop" => ENABLED MaybeStep)
    /\ [][IsAttempt =>
            /\ ~accepted
            /\ pc' = IF ~accepted' /\ diagnostics'.status = 0
                     THEN "maybe_step_loop" ELSE "step_loop"]_vars
    /\ [][(IsAttempt /\ ~accepted') =>
            /\ iterand'.time = iterand.time
            /\ solver_internal_state'.order = solver_internal_state.order]_vars

\* One step() call: two attempts not accepted, then an accepted one.
C15_Witness ==
    /\ accepted
    /\ pc = "step_loop"
    /\ diagnostics.num_jacobian_evaluations = 1
    /\ iterand.num_steps = 3
    /\ iterand.time = solver_internal_state.step_size

\* C16. Newton-failure transitions: an attempt whose Newton corrector failed
\* leaves the order as it was and, if jacobian_is_up_to_date was true, leaves
\* step_size * newton_step_size_factor pending with should_update_step_size
\* set; if jacobian_is_up_to_date was false, sets should_update_jacobian and
\* leaves new_step_size = step_size with no step-size update pending.
C16_NewtonFailure ==
    /\ [][(IsAttempt /\ ~attempt'.newton_converged /\ iterand.jacobian_is_up_to_date) =>
            /\ iterand'.new_step_size * newton_step_size_factor.den
                   = solver_internal_state'.step_size * newton_step_size_factor.num
            /\ iterand'.should_update_step_size
            /\ solver_internal_state'.order = solver_internal_state.order]_vars
    /\ [][(IsAttempt /\ ~attempt'.newton_converged /\ ~iterand.jacobian_is_up_to_date) =>
            /\ iterand'.should_update_jacobian
            /\ iterand'.new_step_size = solver_internal_state'.step_size
            /\ ~iterand'.should_update_step_size
            /\ solver_internal_state'.order = solver_internal_state.order]_vars

\* Newton failed twice with the Jacobian marked up to date: the step size in
\* force was halved once and the next halving is pending.
C16_Witness ==
    /\ iterand.jacobian_is_up_to_date
    /\ ~attempt.newton_converged
    /\ iterand.num_steps = 2
    /\ iterand.should_update_step_size
    /\ 2 * solver_internal_state.step_size = Unit
    /\ 2 * iterand.new_step_size = solver_internal_state.step_size

\* C17. Order-adaptation hysteresis: the order changes only in an accepted
\* attempt that leaves num_steps_same_size above order + 1, and then by 1 at
\* most; num_steps_same_size counts the accepted attempts since a pending
\* step-size update was last applied (an attempt that applies one restarts it
\* from 0, an accepted attempt adds 1, nothing else changes it); and every
\* accepted attempt that leaves it above order + 1 leaves a step-size update
\* pending, so the next attempt restarts the count.
C17_OrderHysteresis ==
    /\ [][solver_internal_state'.order # solver_internal_state.order =>
            /\ IsAttempt
            /\ accepted'
            /\ iterand'.num_steps_same_size > solver_internal_state.order + 1
            /\ solver_internal_state'.order - solver_internal_state.order \in {-1, 1}]_vars
    /\ [][iterand'.num_steps_same_size =
            (IF IsAttempt /\ iterand.should_update_step_size THEN 0
             ELSE iterand.num_steps_same_size)
            + (IF IsAttempt /\ accepted' THEN 1 ELSE 0)]_vars
    /\ [][(IsAttempt /\ accepted'
            /\ iterand'.num_steps_same_size > solver_internal_state.order + 1) =>
            iterand'.should_update_step_size]_vars

\* The third accepted attempt in a row at one step size raised the order
\* from 1 to 2 and left a step-size update pending.
C17_Witness ==
    /\ accepted
    /\ solver_internal_state.order = 2
    /\ iterand.num_steps_same_size = 3
    /\ iterand.should_update_step_size
    /\ iterand.num_steps = 3

\* The attempt just made evaluated order adaptation.
Evaluated ==
    /\ IsAttempt
    /\ accepted'
    /\ iterand'.num_steps_same_size > solver_internal_state.order + 1

\* C18. Order selection scan: when order adaptation is evaluated, with
\* candidates order - 1 and order + 1 clamped to [1, max_order], the adopted
\* order and error ratio are the current ones if neither candidate's ratio is
\* strictly below the current ratio; the candidate order - 1 and its ratio
\* if that is strictly below the current ratio and not above the ratio of
\* order + 1 (a tie between the two adopts order - 1); the candidate
\* order + 1 and its ratio if that is strictly below both; and the new step
\* size is next_step_size of the adopted order and its error ratio.
C18_OrderScan ==
    [][Evaluated =>
          LET order == solver_internal_state.order
              current == attempt'.error_ratio.exp
              minus == attempt'.proposed_error_ratios[1].exp
              plus == attempt'.proposed_error_ratios[2].exp
              new_order == solver_internal_state'.order
              new_error_ratio == attempt'.new_error_ratio
              factor == StepSizeFactor(new_order, new_error_ratio, safety_factor,
                                       min_step_size_factor, max_step_size_factor)
          IN  /\ ~new_error_ratio.nan
              /\ (current <= minus /\ current <= plus) =>
                     (new_order = order /\ new_error_ratio.exp = current)
              /\ (minus < current /\ minus <= plus) =>
                     (/\ new_order = Clip(order - 1, 1, max_order)
                      /\ new_error_ratio.exp = minus)
              /\ (plus < current /\ plus < minus) =>
                     (/\ new_order = Clip(order + 1, 1, max_order)
                      /\ new_error_ratio.exp = plus)
              /\ iterand'.new_step_size * factor.den
                     = solver_internal_state'.step_size * factor.num]_vars

\* At order 2 the candidates 1 and 3 tied below the current error ratio and
\* order 1 was adopted (before that, at order 1, order 2 had been adopted).
C18_Witness ==
    /\ accepted
    /\ attempt.order = 2
    /\ max_order > 2
    /\ attempt.proposed_error_ratios[1] = attempt.proposed_error_ratios[2]
    /\ attempt.proposed_error_ratios[1].exp < attempt.error_ratio.exp
    /\ ~attempt.proposed_error_ratios[1].nan
    /\ solver_internal_state.order = 1

\* C19. Lazy Jacobian option: a step() call keeps the cached jacobian_mat and
\* leaves num_jacobian_evaluations as it was exactly when
\* evaluate_jacobian_lazily is on and jacobian_is_up_to_date is true; in
\* every other case it stores the Jacobian evaluated at the current time and
\* state and adds exactly 1 to num_jacobian_evaluations; and no attempt
\* changes jacobian_mat.
C19_LazyJacobian ==
    /\ [][(pc = "step_loop" /\ pc' = "maybe_step_loop") =>
            IF evaluate_jacobian_lazily /\ iterand.jacobian_is_up_to_date
            THEN /\ iterand'.jacobian_mat = iterand.jacobian_mat
                 /\ diagnostics'.num_jacobian_evaluations
                        = diagnostics.num_jacobian_evaluations
            ELSE /\ iterand'.jacobian_mat =
                        <<"jacobian", iterand.time, StateAt(iterand.time)>>
                 /\ diagnostics'.num_jacobian_evaluations
                        = diagnostics.num_jacobian_evaluations + 1]_vars
    /\ [][IsAttempt => iterand'.jacobian_mat = iterand.jacobian_mat]_vars

\* With lazy evaluation on and the Jacobian marked up to date, a step() call
\* kept the initial jacobian_mat without evaluating, and an attempt ran on it.
C19_Witness ==
    /\ evaluate_jacobian_lazily
    /\ iterand.jacobian_is_up_to_date
    /\ iterand.num_steps = 1
    /\ iterand.jacobian_mat = Zeros
    /\ diagnostics.num_jacobian_evaluations = 0

\* C20. jacobian_is_up_to_date is false in every reachable state of a solve,
\* with evaluate_jacobian_lazily on or off; so every step() call evaluates
\* the Jacobian (the lazy skip never happens) and no attempt whose Newton
\* corrector failed leaves a shrunk step size pending.
C20_JacobianNeverUpToDate ==
    /\ [](~iterand.jacobian_is_up_to_date)
    /\ [][(pc = "step_loop" /\ pc' = "maybe_step_loop") =>
            diagnostics'.num_jacobian_evaluations
                = diagnostics.num_jacobian_evaluations + 1]_vars
    /\ [][(IsAttempt /\ ~attempt'.newton_converged) =>
            /\ ~iterand'.should_update_step_size
            /\ iterand'.new_step_size = solver_internal_state'.step_size]_vars

\* With lazy evaluation on: a second step() call evaluated the Jacobian again
\* and a Newton failure in it left the step size as it was.
C20_Witness ==
    /\ evaluate_jacobian_lazily
    /\ ~iterand.jacobian_is_up_to_date
    /\ diagnostics.num_jacobian_evaluations = 2
    /\ pc = "maybe_step_loop"
    /\ ~attempt.newton_converged
    /\ iterand.num_steps >= 2
    /\ iterand.time > 0
    /\ iterand.new_step_size = solver_internal_state.step_size

\* C21. The Newton system matrix is refactored in every attempt, accepted or
\* not: num_matrix_factorizations equals num_steps in every reachable state,
\* each maybe_step call adds exactly 1 to both whatever its outcome (so
\* num_steps counts attempts, not accepted steps), and nothing else changes
\* either.
C21_FactorizationsEqualSteps ==
    /\ [](diagnostics.num_matrix_factorizations = iterand.num_steps)
    /\ [][IF pc = "maybe_step_loop"
          THEN /\ iterand'.num_steps = iterand.num_steps + 1
               /\ diagnostics'.num_matrix_factorizations
                      = diagnostics.num_matrix_factorizations + 1
          ELSE /\ iterand'.num_steps = iterand.num_steps
               /\ diagnostics'.num_matrix_factorizations
                      = diagnostics.num_matrix_factorizations]_vars

\* Four attempts and four factorizations, one of the attempts accepted and
\* the last one a Newton failure at an unchanged step size.
C21_Witness ==
    /\ iterand.num_steps = 4
    /\ diagnostics.num_matrix_factorizations = 4
    /\ ~accepted
    /\ ~attempt.newton_converged
    /\ iterand.time = solver_internal_state.step_size
    /\ iterand.num_steps_same_size = 1

\* C22. When the output time being advanced to equals the solver's time (the
\* first output time equal to initial_time, a repeated output time, or a
\* target just reached), no attempt is made for it: the one step taken
\* records the current state under that time in the slot and moves to the
\* next slot, leaving time, order, step size, history, num_steps and every
\* diagnostics counter as they were.
C22_NoAttemptAtCurrentTime ==
    [][(pc = "step_loop" /\ iterand.time = nth_solution_time) =>
          /\ n' = n + 1
          /\ times'[n + 1] = iterand.time
          /\ state_vec'[n + 1] = StateAt(iterand.time)
          /\ iterand' = iterand
          /\ solver_internal_state' = solver_internal_state
          /\ diagnostics' = diagnostics]_vars

\* A repeated output time: the second slot was recorded with the time and
\* state of the first, with status 0 and no attempt in between.
C22_Witness ==
    /\ n = 2
    /\ num_solution_times = 3
    /\ solution_times[1] = solution_times[2]
    /\ times[2] = times[1]
    /\ state_vec[2] = state_vec[1]
    /\ state_vec[2] = StateAt(solution_times[2])
    /\ diagnostics.status = 0
    /\ iterand.num_steps = 2
    /\ iterand.time = solution_times[2]

\* C23. Between attempts, whenever should_update_step_size is false the
\* pending new_step_size equals the step size in force; hence the step size
\* an attempt uses is always the new_step_size that was pending when it was
\* entered, after the clamp of step().
C23_PendingStepSize ==
    /\ [](~iterand.should_update_step_size =>
             iterand.new_step_size = solver_internal_state.step_size)
    /\ [][IsAttempt =>
            solver_internal_state'.step_size = iterand.new_step_size]_vars

\* An accepted attempt at a step size shrunk by a rejection left no update
\* pending, and the step() call after it found nothing to clamp.
C23_Witness ==
    /\ pc = "maybe_step_loop"
    /\ accepted = FALSE
    /\ attempt.newton_converged
    /\ ~iterand.should_update_step_size
    /\ iterand.new_step_size = solver_internal_state.step_size
    /\ solver_internal_state.step_size < Unit
    /\ diagnostics.num_jacobian_evaluations = 2
    /\ iterand.num_steps = 2

====
